---- MODULE Spec2Model ----
(***************************************************************************)
(* A model of glob-diff (src/src/glob-diff.ts): the snapshot validator,    *)
(* the differ, the concurrent snapshot builder and the globDiff            *)
(* orchestrator, over a small filesystem.                                  *)
(*                                                                         *)
(* JavaScript values are tagged records (field t is the `typeof`-level     *)
(* kind); an object or an array carries its own enumerable properties as   *)
(* a sequence of <<key, value>> pairs in insertion order.                  *)
(***************************************************************************)
EXTENDS Integers, Sequences, FiniteSets, TLC

(***************************************************************************)
(* Bounds of the model.                                                    *)
(***************************************************************************)
\* Number of globDiff invocations in one behaviour.
MaxRuns == 2
\* Largest number of own properties of a value handed to the validator.
MaxEntries == 2

(***************************************************************************)
(* JavaScript values.                                                      *)
(***************************************************************************)
Undefined == [t |-> "undefined"]
Null == [t |-> "null"]
Bool(b) == [t |-> "boolean", b |-> b]
Str(s) == [t |-> "string", s |-> s]
Num(n) == [t |-> "number", n |-> n]
Obj(entries) == [t |-> "object", entries |-> entries]
Arr(entries) == [t |-> "array", entries |-> entries]

\* `typeof v`: null and arrays are "object".
TypeOf(v) == IF v.t \in {"null", "array"} THEN "object" ELSE v.t

\* Truthiness, as `if (v)`, `!v`, `a || b` and `a && b` see it.
Truthy(v) ==
  CASE v.t = "undefined" -> FALSE
    [] v.t = "null" -> FALSE
    [] v.t = "boolean" -> v.b
    [] v.t = "string" -> v.s # ""
    [] v.t = "number" -> v.n # 0
    [] OTHER -> TRUE

IsRef(v) == v.t \in {"object", "array"}

\* Object.entries(v) / Object.keys(v): own enumerable properties, in order.
\* A string primitive has none that the model needs (only "" and path-free
\* strings are handed to it through a typeof guard).
ObjectEntries(v) == IF IsRef(v) THEN v.entries ELSE <<>>

ObjectKeys(v) == [i \in 1..Len(ObjectEntries(v)) |-> ObjectEntries(v)[i][1]]

\* `key in v` for own properties.
HasProp(v, key) ==
  \E i \in 1..Len(ObjectEntries(v)) : ObjectEntries(v)[i][1] = key

\* `v[key]` and `v?.[key]`: the property's value, undefined when absent
\* (or when v is undefined or null, which the code reaches only through ?.).
Prop(v, key) ==
  IF HasProp(v, key)
  THEN LET i == CHOOSE j \in 1..Len(ObjectEntries(v)) :
                  ObjectEntries(v)[j][1] = key
       IN ObjectEntries(v)[i][2]
  ELSE Undefined

\* `a === b` for the values the code compares with it: hashes and mtimes,
\* possibly undefined.
StrictEquals(a, b) ==
  /\ a.t = b.t
  /\ CASE a.t = "string" -> a.s = b.s
       [] a.t = "number" -> a.n = b.n
       [] a.t = "boolean" -> a.b = b.b
       [] a.t \in {"undefined", "null"} -> TRUE
       [] OTHER -> FALSE

\* An assignment that leaves the object with this one property.
SetProp_ReplacesAll(v, key, value) ==
  [v EXCEPT !.entries = << <<key, value>> >>]

\* `snapshot[filePath] = value`: replaces an existing property in place,
\* appends a new one.
SetProp(v, key, value) ==
  IF HasProp(v, key)
  THEN [v EXCEPT !.entries =
          [i \in 1..Len(v.entries) |->
             IF v.entries[i][1] = key THEN <<key, value>> ELSE v.entries[i]]]
  ELSE [v EXCEPT !.entries = Append(v.entries, <<key, value>>)]

\* An object literal with those of the fields hash and mtimeMs that are
\* not undefined.
EntryObjectOf(hash, mtimeMs) ==
  Obj((IF hash.t = "undefined" THEN <<>> ELSE << <<"hash", hash>> >>)
      \o (IF mtimeMs.t = "undefined" THEN <<>> ELSE << <<"mtimeMs", mtimeMs>> >>))

\* A file snapshot that keeps the mtimeMs 1 whatever the stat returned.
FileSnapshot_FirstMtime(hash, mtimeMs) ==
  Obj(<< <<"hash", hash>>, <<"mtimeMs", Num(1)>> >>)

\* A GlobDiffFileSnapshot literal { hash, mtimeMs }.
FileSnapshot(hash, mtimeMs) ==
  Obj(<< <<"hash", hash>>, <<"mtimeMs", mtimeMs>> >>)

(***************************************************************************)
(* isValidGlobDiffSnapshot                                                 *)
(***************************************************************************)
\* The conjunction that accepts one entry of the loop (the negation of the
\* `if` that returns false); the key of Object.entries is always a string.
ValidEntry(fileSnapshot) ==
  /\ TypeOf(fileSnapshot) = "object"
  /\ fileSnapshot.t # "null"
  /\ HasProp(fileSnapshot, "hash")
  /\ HasProp(fileSnapshot, "mtimeMs")
  /\ TypeOf(Prop(fileSnapshot, "hash")) = "string"
  /\ TypeOf(Prop(fileSnapshot, "mtimeMs")) = "number"

isValidGlobDiffSnapshot(snapshot) ==
  IF TypeOf(snapshot) # "object" \/ snapshot.t = "null"
  THEN FALSE
  ELSE \A i \in 1..Len(ObjectEntries(snapshot)) :
         ValidEntry(ObjectEntries(snapshot)[i][2])

(***************************************************************************)
(* getGlobDiffChanges                                                      *)
(***************************************************************************)
Change(type, filePath) == [type |-> type, filePath |-> filePath]

\* new Set(Object.keys(s)): the keys, iterated in insertion order.
KeySet(s) == {ObjectKeys(s)[i] : i \in 1..Len(ObjectKeys(s))}

\* The first loop finding nothing deleted.
DeletePass_None(previousSnapshot, nextSnapshot, i) == <<>>

\* The first loop taking every path of the previous snapshot for deleted.
DeletePass_All(previousSnapshot, nextSnapshot, i) ==
  [j \in 1..Len(ObjectKeys(previousSnapshot)) |->
     Change("delete", ObjectKeys(previousSnapshot)[j])]

RECURSIVE DeletePass(_, _, _)
\* The first loop, from key index i on.
DeletePass(previousSnapshot, nextSnapshot, i) ==
  IF i > Len(ObjectKeys(previousSnapshot)) THEN <<>>
  ELSE LET previousFilePath == ObjectKeys(previousSnapshot)[i]
           rest == DeletePass(previousSnapshot, nextSnapshot, i + 1)
       IN IF previousFilePath \notin KeySet(nextSnapshot)
          THEN <<Change("delete", previousFilePath)>> \o rest
          ELSE rest

RECURSIVE CreateUpdatePass_ComparesMtime(_, _, _)
\* The second loop comparing mtimeMs as well as hash.
CreateUpdatePass_ComparesMtime(previousSnapshot, nextSnapshot, i) ==
  IF i > Len(ObjectKeys(nextSnapshot)) THEN <<>>
  ELSE LET nextFilePath == ObjectKeys(nextSnapshot)[i]
           rest == CreateUpdatePass_ComparesMtime(previousSnapshot, nextSnapshot, i + 1)
       IN IF nextFilePath \notin KeySet(previousSnapshot)
          THEN <<Change("create", nextFilePath)>> \o rest
          ELSE IF Prop(previousSnapshot, nextFilePath) # Prop(nextSnapshot, nextFilePath)
               THEN <<Change("update", nextFilePath)>> \o rest
               ELSE rest

\* The second loop taking every path of the next snapshot for an update.
CreateUpdatePass_AllUpdates(previousSnapshot, nextSnapshot, i) ==
  [j \in 1..Len(ObjectKeys(nextSnapshot)) |->
     Change("update", ObjectKeys(nextSnapshot)[j])]

RECURSIVE CreateUpdatePass(_, _, _)
\* The second loop, from key index i on.
CreateUpdatePass(previousSnapshot, nextSnapshot, i) ==
  IF i > Len(ObjectKeys(nextSnapshot)) THEN <<>>
  ELSE LET nextFilePath == ObjectKeys(nextSnapshot)[i]
           rest == CreateUpdatePass(previousSnapshot, nextSnapshot, i + 1)
       IN IF nextFilePath \notin KeySet(previousSnapshot)
          THEN <<Change("create", nextFilePath)>> \o rest
          ELSE IF ~StrictEquals(
                     Prop(Prop(previousSnapshot, nextFilePath), "hash"),
                     Prop(Prop(nextSnapshot, nextFilePath), "hash"))
               THEN <<Change("update", nextFilePath)>> \o rest
               ELSE rest

\* The differ with its loops in the other order.
getGlobDiffChanges_DeletesLast(previousSnapshot, nextSnapshot) ==
  CreateUpdatePass(previousSnapshot, nextSnapshot, 1)
    \o DeletePass(previousSnapshot, nextSnapshot, 1)

\* The differ without its first loop.
getGlobDiffChanges_NoDeletes(previousSnapshot, nextSnapshot) ==
  CreateUpdatePass(previousSnapshot, nextSnapshot, 1)

getGlobDiffChanges(previousSnapshot, nextSnapshot) ==
  DeletePass(previousSnapshot, nextSnapshot, 1)
    \o CreateUpdatePass(previousSnapshot, nextSnapshot, 1)

(***************************************************************************)
(* File contents, JSON.stringify and JSON.parse.                           *)
(*                                                                         *)
(* A file's content is a sequence of tokens.  JSON text is the token       *)
(* sequence JSON.stringify emits; other bytes are one raw token, which     *)
(* JSON.parse rejects.  The empty sequence is the empty file.              *)
(***************************************************************************)
LBrace == [tok |-> "{"]
RBrace == [tok |-> "}"]
LBrack == [tok |-> "["]
RBrack == [tok |-> "]"]
NullTok == [tok |-> "null"]
KeyTok(k) == [tok |-> "key", s |-> k]
StrTok(s) == [tok |-> "str", s |-> s]
NumTok(n) == [tok |-> "num", n |-> n]
BoolTok(b) == [tok |-> "bool", b |-> b]
RawTok(s) == [tok |-> "raw", s |-> s]

RECURSIVE JSONstringify(_)
RECURSIVE StringifyMembers(_, _)
RECURSIVE StringifyElements(_, _)

\* The members of an object from index i on; a property whose value is
\* undefined is left out.
StringifyMembers(entries, i) ==
  IF i > Len(entries) THEN <<>>
  ELSE (IF entries[i][2].t = "undefined" THEN <<>>
        ELSE <<KeyTok(entries[i][1])>> \o JSONstringify(entries[i][2]))
       \o StringifyMembers(entries, i + 1)

\* The elements of an array from index i on; undefined becomes null.
StringifyElements(entries, i) ==
  IF i > Len(entries) THEN <<>>
  ELSE (IF entries[i][2].t = "undefined" THEN <<NullTok>>
        ELSE JSONstringify(entries[i][2]))
       \o StringifyElements(entries, i + 1)

JSONstringify(v) ==
  CASE v.t = "string" -> <<StrTok(v.s)>>
    [] v.t = "number" -> <<NumTok(v.n)>>
    [] v.t = "boolean" -> <<BoolTok(v.b)>>
    [] v.t = "null" -> <<NullTok>>
    [] v.t = "object" -> <<LBrace>> \o StringifyMembers(v.entries, 1) \o <<RBrace>>
    [] v.t = "array" -> <<LBrack>> \o StringifyElements(v.entries, 1) \o <<RBrack>>
    [] OTHER -> <<>>

\* A parse result: ok, the value, and the index of the next unread token.
ParseError == [ok |-> FALSE, value |-> Undefined, next |-> 0]
Parsed(v, next) == [ok |-> TRUE, value |-> v, next |-> next]

RECURSIVE ParseValue(_, _)
RECURSIVE ParseMembers(_, _, _)
RECURSIVE ParseElements(_, _, _)

\* Object members up to the closing brace; a repeated key keeps its first
\* position and takes the last value.
ParseMembers(toks, i, acc) ==
  IF i > Len(toks) THEN ParseError
  ELSE IF toks[i].tok = "}" THEN Parsed(acc, i + 1)
  ELSE IF toks[i].tok = "key"
       THEN LET r == ParseValue(toks, i + 1)
            IN IF r.ok
               THEN ParseMembers(toks, r.next, SetProp(acc, toks[i].s, r.value))
               ELSE ParseError
       ELSE ParseError

\* Array elements up to the closing bracket, keyed "0", "1", ...
ParseElements(toks, i, acc) ==
  IF i > Len(toks) THEN ParseError
  ELSE IF toks[i].tok = "]" THEN Parsed(acc, i + 1)
  ELSE LET r == ParseValue(toks, i)
       IN IF r.ok
          THEN ParseElements(toks, r.next,
                 SetProp(acc, ToString(Len(acc.entries)), r.value))
          ELSE ParseError

ParseValue(toks, i) ==
  IF i > Len(toks) THEN ParseError
  ELSE CASE toks[i].tok = "str" -> Parsed(Str(toks[i].s), i + 1)
         [] toks[i].tok = "num" -> Parsed(Num(toks[i].n), i + 1)
         [] toks[i].tok = "bool" -> Parsed(Bool(toks[i].b), i + 1)
         [] toks[i].tok = "null" -> Parsed(Null, i + 1)
         [] toks[i].tok = "{" -> ParseMembers(toks, i + 1, Obj(<<>>))
         [] toks[i].tok = "[" -> ParseElements(toks, i + 1, Arr(<<>>))
         [] OTHER -> ParseError

\* JSON.parse(text): ok is FALSE where it throws a SyntaxError (no value,
\* or anything left after the value).
JSONparse(toks) ==
  LET r == ParseValue(toks, 1)
  IN IF r.ok /\ r.next = Len(toks) + 1 THEN r ELSE ParseError

\* The text of one token, for hashing.
TokText(tk) ==
  CASE tk.tok \in {"key", "str", "raw"} -> "'" \o tk.s \o "'"
    [] tk.tok = "num" -> ToString(tk.n)
    [] tk.tok = "bool" -> IF tk.b THEN "true" ELSE "false"
    [] OTHER -> tk.tok

RECURSIVE Render(_, _)
Render(toks, i) ==
  IF i > Len(toks) THEN "" ELSE TokText(toks[i]) \o Render(toks, i + 1)

\* hasha's hashFile(filePath, { algorithm: 'md5' }) on a file with this
\* content: a digest string that is a function of the content alone.
Digest(content) == "md5:" \o Render(content, 1)

(***************************************************************************)
(* The filesystem and the external collaborators (node:path, node:fs,      *)
(* globby).                                                                *)
(***************************************************************************)
\* process.cwd() of the calling process.
ProcessCwd == "/work"
\* A directory other than process.cwd(), for the `cwd` option.
OtherCwd == "/pkg"

defaultGlobDiffSnapshotFileName == ".glob-diff.json"

\* Relative names the calls use.
FileNames == {"a.js", "b.js"}

Join(dir, name) == dir \o "/" \o name

\* The files the environment creates, changes and deletes.
DataPaths == {Join(ProcessCwd, n) : n \in FileNames}
\* A file under the other directory; it is there throughout.
OtherPaths == {Join(OtherCwd, "a.js")}
AbsolutePaths ==
  DataPaths \cup OtherPaths \cup {Join(ProcessCwd, defaultGlobDiffSnapshotFileName)}

Contents == {<<RawTok("x")>>, <<RawTok("y")>>}

NoFile == [exists |-> FALSE]
File(content, mtimeMs) == [exists |-> TRUE, content |-> content, mtimeMs |-> mtimeMs]

\* path.resolve(p) with a single argument: an absolute path as it is, a
\* relative one against process.cwd().
PathResolve(p) == IF p \in AbsolutePaths THEN p ELSE Join(ProcessCwd, p)

\* The directory listing globby walks: the base names under process.cwd().
BaseNames == FileNames \cup {defaultGlobDiffSnapshotFileName}

\* Whether one positive glob pattern matches a base name (dot files only
\* by a pattern that starts with a dot, as with globby's default dot: false).
PatternMatches(pattern, name) ==
  CASE pattern = "*.js" -> name \in FileNames
    [] pattern = ".*" -> name = defaultGlobDiffSnapshotFileName
    [] OTHER -> pattern = name

\* A patterns argument as a list of strings: a string is one pattern.
PatternList(patterns) ==
  CASE patterns.t = "string" -> <<patterns.s>>
    [] patterns.t = "array" ->
         [i \in 1..Len(patterns.entries) |-> patterns.entries[i][2].s]
    [] OTHER -> <<>>

IsNegated(pattern) == pattern \in {"!a.js", "!b.js"}
Negated(pattern) == IF pattern = "!a.js" THEN "a.js" ELSE "b.js"

\* Whether the pattern list selects a base name: some positive pattern
\* matches it and no negated pattern does.
Selects(list, name) ==
  /\ \E i \in 1..Len(list) : ~IsNegated(list[i]) /\ PatternMatches(list[i], name)
  /\ ~\E i \in 1..Len(list) : IsNegated(list[i]) /\ Negated(list[i]) = name

RECURSIVE SeqOfSet(_)
\* The elements of a finite set as a sequence, in a fixed order.
SeqOfSet(S) ==
  IF S = {} THEN <<>>
  ELSE LET x == CHOOSE y \in S : TRUE IN <<x>> \o SeqOfSet(S \ {x})

\* globby(patterns, { absolute: true }): the existing files under
\* process.cwd() the patterns select, as absolute paths.  No cwd is passed.
Globby(patterns, files) ==
  SeqOfSet({Join(ProcessCwd, n) : n \in
             {m \in BaseNames : /\ files[Join(ProcessCwd, m)].exists
                                /\ Selects(PatternList(patterns), m)}})

(***************************************************************************)
(* State.                                                                  *)
(***************************************************************************)
VARIABLES
  fs,               \* the filesystem: path -> NoFile or File(content, mtimeMs)
  call,             \* the arguments of the globDiff calls of this behaviour
  runs,             \* globDiff invocations started so far
  pc,               \* where the current invocation stands
  error,            \* the error the invocation threw ("" when none)
  previousSnapshot, \* globDiff's previousSnapshot
  filePaths,        \* getGlobDiffSnapshot's filePaths
  task,             \* per index of filePaths: "stat", "hash", "done", "failed"
  fileStats,        \* per index of filePaths: the mtimeMs its stat returned
  snapshot,         \* the snapshot object the tasks fill
  changes,          \* globDiff's changes
  io,               \* the I/O the current invocation has performed
  observed,         \* the filesystem as it was when the invocation started
  baseline,         \* `observed` of the last invocation that returned
  history           \* what the environment did since the last call was made,
                    \* and how the call before this one ended

vars == <<fs, call, runs, pc, error, previousSnapshot, filePaths, task,
          fileStats, snapshot, changes, io, observed, baseline, history>>

runVars == <<pc, error, previousSnapshot, filePaths, task, fileStats,
             snapshot, changes, io>>

(***************************************************************************)
(* globDiff                                                                *)
(***************************************************************************)
\* A GlobDiffOptions object; an option left out is undefined.
Options(alwaysHash, cwd, patterns, files, saveSnapshot, snapshotOpt, snapshotFilePath) ==
  [t |-> "object", alwaysHash |-> alwaysHash, cwd |-> cwd, patterns |-> patterns,
   files |-> files, saveSnapshot |-> saveSnapshot, snapshot |-> snapshotOpt,
   snapshotFilePath |-> snapshotFilePath]

NoOptions ==
  Options(Undefined, Undefined, Undefined, Undefined, Undefined, Undefined, Undefined)

isGlobDiffPatterns(patternsOrOptions) ==
  TypeOf(patternsOrOptions) = "string" \/ patternsOrOptions.t = "array"

\* The `options` constant of globDiff: { patterns, ...maybeOptions } for the
\* positional call shape, the first argument otherwise.
OptionsOf(patternsOrOptions, maybeOptions) ==
  IF isGlobDiffPatterns(patternsOrOptions)
  THEN [(IF maybeOptions.t = "undefined" THEN NoOptions ELSE maybeOptions)
          EXCEPT !.patterns = patternsOrOptions]
  ELSE patternsOrOptions

options == OptionsOf(call.patternsOrOptions, call.maybeOptions)

\* a || b
OrElse(a, b) == IF Truthy(a) THEN a ELSE b

snapshotFilePath ==
  PathResolve(OrElse(options.snapshotFilePath,
                     Str(defaultGlobDiffSnapshotFileName)).s)

\* No invocation is under way and every task of the last one has settled.
Quiescent ==
  /\ pc \in {"idle", "returned", "threw"}
  /\ \A i \in 1..Len(task) : task[i] \in {"done", "failed"}

\* throw new Error(message); the messages are the source's without their
\* backquotes.
Throw(message) ==
  /\ pc' = "threw"
  /\ error' = message

\* No build is under way: no file paths, no tasks, no new snapshot object.
NoTasks ==
  /\ filePaths' = <<>>
  /\ task' = <<>>
  /\ fileStats' = <<>>
  /\ snapshot' = Obj(<<>>)

\* getGlobDiffSnapshot up to its Promise.all: one task per file path, each
\* waiting for its stat.
StartTasks(paths) ==
  /\ filePaths' = paths
  /\ task' = [i \in 1..Len(paths) |-> "stat"]
  /\ fileStats' = [i \in 1..Len(paths) |-> 0]
  /\ snapshot' = Obj(<<>>)
  /\ pc' = "build"
  /\ error' = ""

\* The list of the `files` option resolved by path.resolve(filePath).
ResolvedFiles(files) ==
  [i \in 1..Len(files.entries) |-> PathResolve(files.entries[i][2].s)]

\* A build that starts from the empty snapshot whatever it is given.
CheckAndBuild_FromEmpty(previous) ==
  /\ previousSnapshot' = Obj(<<>>)
  /\ IF ~Truthy(options.patterns) /\ ~Truthy(options.files)
     THEN /\ Throw("Either patterns or files must be provided")
          /\ NoTasks
     ELSE IF Truthy(options.files)
          THEN StartTasks(ResolvedFiles(options.files))
          ELSE /\ pc' = "glob"
               /\ error' = ""
               /\ NoTasks

\* globDiff from the patterns-or-files check to the first await of
\* getGlobDiffSnapshot, with `previous` the previous snapshot in hand.
CheckAndBuild(previous) ==
  /\ previousSnapshot' = previous
  /\ IF ~Truthy(options.patterns) /\ ~Truthy(options.files)
     THEN /\ Throw("Either patterns or files must be provided")
          /\ NoTasks
     ELSE IF Truthy(options.files)
          THEN StartTasks(ResolvedFiles(options.files))
          ELSE /\ pc' = "glob"
               /\ error' = ""
               /\ NoTasks

\* The { snapshot, changes } a call returns.
Result(s, c) == [snapshot |-> s, changes |-> c]

\* Bookkeeping of a call: what the filesystem held when it was made, when
\* the invocation before it returned, what that one had seen, and what the
\* invocation before it held when it ended.
NoteStart ==
  /\ observed' = fs
  /\ baseline' = IF pc = "returned" THEN observed ELSE baseline
  /\ history' = [previous |-> pc, quiet |-> history.touched = {},
                 touched |-> {}, silent |-> history.silent,
                 result |-> Result(snapshot, changes)]

\* A call of globDiff, up to its first await.
Start ==
  /\ Quiescent
  /\ runs < MaxRuns
  /\ runs' = runs + 1
  /\ NoteStart
  /\ io' = {}
  /\ changes' = <<>>
  /\ UNCHANGED <<fs, call>>
  /\ IF Truthy(options.snapshot) /\ ~isValidGlobDiffSnapshot(options.snapshot)
     THEN /\ Throw("Invalid glob-diff snapshot")
          /\ previousSnapshot' = options.snapshot
          /\ NoTasks
     ELSE IF ~Truthy(options.snapshot)
          THEN /\ pc' = "load"
               /\ error' = ""
               /\ previousSnapshot' = options.snapshot
               /\ NoTasks
          ELSE CheckAndBuild(options.snapshot)

\* A load that never finds what was saved.
loadGlobDiffSnapshot_AlwaysEmpty(file) ==
  [ok |-> TRUE, value |-> Obj(<<>>), error |-> ""]

\* What loadGlobDiffSnapshot does with the file: the snapshot it returns,
\* or the error it throws.
loadGlobDiffSnapshot(file) ==
  IF ~file.exists \/ file.content = <<>>
  THEN [ok |-> TRUE, value |-> Obj(<<>>), error |-> ""]
  ELSE LET r == JSONparse(file.content)
       IN IF ~r.ok
          THEN [ok |-> FALSE, value |-> Undefined, error |-> "SyntaxError"]
          ELSE IF ~isValidGlobDiffSnapshot(r.value)
               THEN [ok |-> FALSE, value |-> Undefined,
                     error |-> "Invalid glob-diff snapshot file"]
               ELSE [ok |-> TRUE, value |-> r.value, error |-> ""]

\* The read of the snapshot file completes; globDiff goes on to the check
\* and the start of the build.
Load ==
  /\ pc = "load"
  /\ io' = io \cup {<<"readFile", snapshotFilePath>>}
  /\ UNCHANGED <<fs, call, runs, changes, observed, baseline, history>>
  /\ LET r == loadGlobDiffSnapshot(fs[snapshotFilePath])
     IN IF r.ok
        THEN CheckAndBuild(r.value)
        ELSE /\ Throw(r.error)
             /\ UNCHANGED <<previousSnapshot, filePaths, task, fileStats, snapshot>>

\* globby resolves; the tasks start.
Glob ==
  /\ pc = "glob"
  /\ io' = io \cup {<<"globby", ProcessCwd>>}
  /\ StartTasks(Globby(OrElse(options.patterns, Arr(<<>>)), fs))
  /\ UNCHANGED <<fs, call, runs, previousSnapshot, changes, observed,
                 baseline, history>>

\* A failure that is swallowed instead of rejecting.
Reject_Swallowed(message) == UNCHANGED <<pc, error>>

\* A task's failure rejects the Promise.all and with it globDiff, unless an
\* earlier failure already has; the other tasks run on either way.
Reject(message) ==
  IF pc = "build" THEN Throw(message) ELSE UNCHANGED <<pc, error>>

\* The condition without the short-circuit: every file is hashed.
ReusePrevious_Never(previousEntry, mtimeMs) == FALSE

\* The condition without its alwaysHash part.
ReusePrevious_IgnoresAlwaysHash(previousEntry, mtimeMs) ==
  StrictEquals(Prop(previousEntry, "mtimeMs"), Num(mtimeMs))

\* The condition of the `if` of a task: no alwaysHash, and the previous
\* entry (if any) has exactly the mtimeMs the stat returned.
ReusePrevious(previousEntry, mtimeMs) ==
  /\ ~Truthy(options.alwaysHash)
  /\ StrictEquals(Prop(previousEntry, "mtimeMs"), Num(mtimeMs))

\* The stat of task i completes; with an unchanged mtimeMs (and no
\* alwaysHash) the task reuses the previous hash and is done, otherwise it
\* goes on to hash the file.
TaskStat(i) ==
  /\ pc \in {"build", "threw"}
  /\ i \in 1..Len(filePaths)
  /\ task[i] = "stat"
  /\ io' = io \cup {<<"stat", filePaths[i]>>}
  /\ UNCHANGED <<fs, call, runs, previousSnapshot, filePaths, changes,
                 observed, baseline, history>>
  /\ LET filePath == filePaths[i]
         file == fs[filePath]
         previousEntry == Prop(previousSnapshot, filePath)
     IN IF ~file.exists
        THEN /\ task' = [task EXCEPT ![i] = "failed"]
             /\ Reject("ENOENT")
             /\ UNCHANGED <<fileStats, snapshot>>
        ELSE /\ fileStats' = [fileStats EXCEPT ![i] = file.mtimeMs]
             /\ UNCHANGED <<pc, error>>
             /\ IF ReusePrevious(previousEntry, file.mtimeMs)
                THEN /\ snapshot' = SetProp(snapshot, filePath,
                             FileSnapshot(Prop(previousEntry, "hash"),
                                          Num(file.mtimeMs)))
                     /\ task' = [task EXCEPT ![i] = "done"]
                ELSE /\ task' = [task EXCEPT ![i] = "hash"]
                     /\ UNCHANGED snapshot

\* The hashFile of task i completes and the task stores its entry.
TaskHash(i) ==
  /\ pc \in {"build", "threw"}
  /\ i \in 1..Len(filePaths)
  /\ task[i] = "hash"
  /\ io' = io \cup {<<"hashFile", filePaths[i]>>}
  /\ UNCHANGED <<fs, call, runs, previousSnapshot, filePaths, fileStats,
                 changes, observed, baseline, history>>
  /\ LET filePath == filePaths[i]
         file == fs[filePath]
     IN IF ~file.exists
        THEN /\ task' = [task EXCEPT ![i] = "failed"]
             /\ Reject("ENOENT")
             /\ UNCHANGED snapshot
        ELSE /\ snapshot' = SetProp(snapshot, filePath,
                     FileSnapshot(Str(Digest(file.content)), Num(fileStats[i])))
             /\ task' = [task EXCEPT ![i] = "done"]
             /\ UNCHANGED <<pc, error>>

\* A globDiff that saves whatever saveSnapshot says.
BuildDone_AlwaysSaves ==
  /\ pc = "build"
  /\ \A i \in 1..Len(filePaths) : task[i] = "done"
  /\ changes' = getGlobDiffChanges(previousSnapshot, snapshot)
  /\ pc' = "save"
  /\ UNCHANGED <<fs, call, runs, error, previousSnapshot, filePaths,
                 task, fileStats, snapshot, io, observed, baseline, history>>

\* Promise.all resolves: getGlobDiffSnapshot returns, globDiff computes the
\* changes and either starts writing the snapshot file or returns.
BuildDone ==
  /\ pc = "build"
  /\ \A i \in 1..Len(filePaths) : task[i] = "done"
  /\ changes' = getGlobDiffChanges(previousSnapshot, snapshot)
  /\ pc' = IF ~StrictEquals(options.saveSnapshot, Bool(FALSE))
           THEN "save" ELSE "returned"
  /\ UNCHANGED <<fs, call, runs, error, previousSnapshot, filePaths,
                 task, fileStats, snapshot, io, observed, baseline, history>>

\* The time a write is stamped with.  Time is counted in calls: what the
\* first call finds was written at time 1, and a write made between the
\* k-th call and the next one (the k-th call's own write of the snapshot
\* file included) is stamped k + 1.
Now == runs + 1

\* A save that writes the snapshot it was given instead of the new one.
Save_WritesPrevious ==
  /\ pc = "save"
  /\ fs' = [fs EXCEPT ![snapshotFilePath] =
              File(JSONstringify(previousSnapshot), Now)]
  /\ io' = io \cup {<<"writeFile", snapshotFilePath>>}
  /\ pc' = "returned"
  /\ UNCHANGED <<call, runs, error, previousSnapshot, filePaths, task,
                 fileStats, snapshot, changes, observed, baseline, history>>

\* fs.promises.writeFile(snapshotFilePath, JSON.stringify(snapshot))
\* completes; globDiff returns { snapshot, changes }.
Save ==
  /\ pc = "save"
  /\ fs' = [fs EXCEPT ![snapshotFilePath] =
              File(JSONstringify(snapshot), Now)]
  /\ io' = io \cup {<<"writeFile", snapshotFilePath>>}
  /\ pc' = "returned"
  /\ UNCHANGED <<call, runs, error, previousSnapshot, filePaths, task,
                 fileStats, snapshot, changes, observed, baseline, history>>

(***************************************************************************)
(* The environment: other processes writing to the filesystem.             *)
(***************************************************************************)
\* Between two calls the environment changes each file at most once: one
\* change stands for the net effect of any sequence of changes to the file.
Untouched(path) ==
  /\ runs >= 1
  /\ path \notin history.touched

\* A file is created or rewritten (with new content, or touched); the
\* write is stamped with a new time.
FsWrite(path, content) ==
  /\ Untouched(path)
  /\ fs' = [fs EXCEPT ![path] = File(content, Now)]
  /\ history' = [history EXCEPT !.touched = @ \cup {path}]
  /\ UNCHANGED <<call, runs, runVars, observed, baseline>>

\* A file's content changes and its mtimeMs does not.
FsSilentWrite(path, content) ==
  /\ Untouched(path)
  /\ fs[path].exists
  /\ fs[path].content # content
  /\ fs' = [fs EXCEPT ![path].content = content]
  /\ history' = [history EXCEPT !.touched = @ \cup {path}, !.silent = TRUE]
  /\ UNCHANGED <<call, runs, runVars, observed, baseline>>

FsDelete(path) ==
  /\ Untouched(path)
  /\ fs[path].exists
  /\ fs' = [fs EXCEPT ![path] = NoFile]
  /\ history' = [history EXCEPT !.touched = @ \cup {path}]
  /\ UNCHANGED <<call, runs, runVars, observed, baseline>>

(***************************************************************************)
(* Specifications.                                                         *)
(***************************************************************************)
Call(patternsOrOptions, maybeOptions) ==
  [patternsOrOptions |-> patternsOrOptions, maybeOptions |-> maybeOptions]

StrList(seq) == Arr([i \in 1..Len(seq) |-> <<ToString(i - 1), Str(seq[i])>>])

\* The filesystem before the first call: each data file absent or written
\* at time 1, the file of the other directory there, no snapshot file.
InitialFs ==
  {f \in [AbsolutePaths -> {NoFile} \cup {File(c, 1) : c \in Contents}] :
     /\ f[Join(ProcessCwd, "a.js")] \in {NoFile, File(<<RawTok("x")>>, 1)}
     /\ f[Join(ProcessCwd, "b.js")] \in {NoFile, File(<<RawTok("y")>>, 1)}
     /\ \A p \in OtherPaths : f[p] = File(<<RawTok("x")>>, 1)
     /\ ~f[Join(ProcessCwd, defaultGlobDiffSnapshotFileName)].exists}

InitRun ==
  /\ runs = 0
  /\ pc = "idle"
  /\ error = ""
  /\ previousSnapshot = Undefined
  /\ filePaths = <<>>
  /\ task = <<>>
  /\ fileStats = <<>>
  /\ snapshot = Obj(<<>>)
  /\ changes = <<>>
  /\ io = {}
  /\ observed = fs
  /\ baseline = [p \in AbsolutePaths |-> NoFile]
  /\ history = [previous |-> "idle", quiet |-> TRUE, touched |-> {},
                silent |-> FALSE, result |-> Result(Obj(<<>>), <<>>)]

\* The calls: a pattern, patterns with a negation, patterns that also
\* select the snapshot file, explicit files, with and without alwaysHash
\* and saveSnapshot.
Selections ==
  { Call(Str("*.js"), Undefined),
    Call(StrList(<<"*.js", "!b.js">>), Undefined),
    Call(StrList(<<"*.js", ".*">>), Undefined),
    Call(Str("*.js"), Options(Bool(TRUE), Undefined, Undefined, Undefined,
                              Bool(TRUE), Undefined, Undefined)) }
  \cup
  { Call(Options(ah, Undefined, Undefined, StrList(<<"a.js", "b.js">>), ss,
                 Undefined, Undefined), Undefined) :
      ah \in {Undefined, Bool(TRUE)}, ss \in {Undefined, Bool(FALSE)} }
  \cup
  { Call(Options(Undefined, Str(OtherCwd), Undefined, StrList(<<"a.js">>),
                 Undefined, Undefined, Undefined), Undefined),
    Call(Str("*.js"), Options(Undefined, Str(OtherCwd), Undefined, Undefined,
                              Undefined, Undefined, Undefined)) }

Init ==
  /\ fs \in InitialFs
  /\ call \in Selections
  /\ InitRun

\* The steps of a call after it was made.
Work ==
  \/ Load
  \/ Glob
  \/ \E i \in 1..2 : TaskStat(i)
  \/ \E i \in 1..2 : TaskHash(i)
  \/ BuildDone
  \/ Save

Env ==
  \/ \E p \in DataPaths, c \in Contents : FsWrite(p, c)
  \/ \E p \in DataPaths, c \in Contents : FsSilentWrite(p, c)
  \/ \E p \in DataPaths : FsDelete(p)

\* Calls of globDiff one after the other, the filesystem changing between
\* them.
Next ==
  \/ Start
  \/ Work
  \/ Quiescent /\ Env

Spec == Init /\ [][Next]_vars

(***************************************************************************)
(* Calls that select nothing, over every kind of stored snapshot file.     *)
(***************************************************************************)
SnapshotFile == Join(ProcessCwd, defaultGlobDiffSnapshotFileName)

\* A stored snapshot with one entry.
StoredSnapshot ==
  Obj(<< <<Join(ProcessCwd, "a.js"),
           FileSnapshot(Str(Digest(<<RawTok("x")>>)), Num(1))>> >>)

\* The snapshot file before the first call: absent, empty, not JSON, JSON
\* of an array, of a string, of an entry without mtimeMs, of an empty and
\* of a one-entry snapshot.
StoredFiles ==
  {NoFile, File(<<>>, 1), File(<<RawTok("garbage")>>, 1)}
    \cup {File(JSONstringify(v), 1) :
            v \in {Arr(<<>>), Str("s"), Obj(<<>>), StoredSnapshot,
                   Obj(<< <<Join(ProcessCwd, "a.js"),
                            EntryObjectOf(Str("h1"), Undefined)>> >>)}}

ConfigCalls ==
  {Call(Str(""), Undefined)}
    \cup {Call(Options(ah, Undefined, Undefined, Undefined, ss, sn, Undefined),
                Undefined) :
            ah \in {Undefined, Bool(TRUE)}, ss \in {Undefined, Bool(FALSE)},
            sn \in {Undefined, Obj(<<>>), Str("s")}}

InitConfig ==
  /\ fs \in {f \in [AbsolutePaths -> {NoFile, File(<<RawTok("x")>>, 1)} \cup StoredFiles] :
              /\ \A p \in DataPaths \cup OtherPaths : f[p] = File(<<RawTok("x")>>, 1)
              /\ f[SnapshotFile] \in StoredFiles}
  /\ call \in ConfigCalls
  /\ InitRun

NextConfig ==
  \/ Start
  \/ Load

SpecConfig == InitConfig /\ [][NextConfig]_vars

(***************************************************************************)
(* Calls with the filesystem changing while they run.                      *)
(***************************************************************************)
RaceCalls ==
  { Call(Str("*.js"), Undefined),
    Call(Options(Undefined, Undefined, Undefined, StrList(<<"a.js", "b.js">>),
                 Undefined, Undefined, Undefined), Undefined),
    Call(Options(Bool(TRUE), Undefined, Undefined, StrList(<<"a.js", "b.js">>),
                 Undefined, Undefined, Undefined), Undefined) }

\* The filesystems of InitialFs, without a snapshot file or with the
\* stored snapshot of a.js.
InitRace ==
  /\ fs \in {[f EXCEPT ![SnapshotFile] = s] :
              f \in InitialFs, s \in {NoFile, File(JSONstringify(StoredSnapshot), 1)}}
  /\ call \in RaceCalls
  /\ InitRun

\* One call, with the environment changing the files while it runs.
NextRace ==
  \/ runs = 0 /\ Start
  \/ Work
  \/ Env

SpecRace == InitRace /\ [][NextRace]_vars

(***************************************************************************)
(* Calls with a previous snapshot in hand: one in the `snapshot` option,   *)
(* one in the snapshot file, or both.                                      *)
(***************************************************************************)
\* A snapshot of a.js with the mtimeMs of the file and another hash.
StaleSnapshot ==
  Obj(<< <<Join(ProcessCwd, "a.js"), FileSnapshot(Str("h1"), Num(1))>> >>)

\* The values of the `snapshot` option: left out, falsy values, a string,
\* an array, snapshots, and objects with an entry that is no file snapshot.
SuppliedSnapshots ==
  {Undefined, Null, Str(""), Str("s"), Arr(<<>>), Obj(<<>>), StoredSnapshot,
   StaleSnapshot,
   Obj(<< <<Join(ProcessCwd, "a.js"), EntryObjectOf(Str("h1"), Undefined)>> >>),
   Obj(<< <<Join(ProcessCwd, "a.js"), Null>> >>)}

PreviousCalls ==
  {Call(Str("*.js"),
        Options(Undefined, Undefined, Undefined, Undefined, ss, sn, Undefined)) :
     ss \in {Undefined, Bool(FALSE)}, sn \in SuppliedSnapshots}
  \cup
  {Call(Options(Undefined, Undefined, Undefined, StrList(<<"a.js">>), ss, sn,
                Undefined), Undefined) :
     ss \in {Undefined, Bool(FALSE)}, sn \in SuppliedSnapshots}
  \cup
  {Call(StrList(<<"*.js", ".*">>),
        Options(Undefined, Undefined, Undefined, Undefined, Bool(FALSE), sn,
                Undefined)) :
     sn \in {Undefined, StoredSnapshot}}

\* a.js is there, b.js is there or not, and the snapshot file is any of
\* the stored files.
InitPrevious ==
  /\ fs \in {[f EXCEPT ![SnapshotFile] = s] :
              f \in {g \in InitialFs : g[Join(ProcessCwd, "a.js")].exists},
              s \in StoredFiles}
  /\ call \in PreviousCalls
  /\ InitRun

\* Calls one after the other; between them a.js may be rewritten.
NextPrevious ==
  \/ Start
  \/ Work
  \/ Quiescent /\ \E c \in Contents : FsWrite(Join(ProcessCwd, "a.js"), c)

SpecPrevious == InitPrevious /\ [][NextPrevious]_vars

(***************************************************************************)
(* The differ on its own: getGlobDiffChanges applied to two snapshots.     *)
(***************************************************************************)
DiffPaths == DataPaths \cup {Join(ProcessCwd, "c.js")}
Hashes == {"h1", "h2"}

\* The snapshots over DiffPaths, in every key order, with mtimeMs m.
DiffSnapshots(m) ==
  LET shapes == UNION {[1..n -> DiffPaths \X Hashes] : n \in 0..Cardinality(DiffPaths)}
      distinct == {q \in shapes : \A i, j \in 1..Len(q) : q[i][1] = q[j][1] => i = j}
  IN {Obj([i \in 1..Len(q) |-> <<q[i][1], FileSnapshot(Str(q[i][2]), Num(m))>>]) :
        q \in distinct}

\* The variables a specification of one function leaves alone.
InitRest ==
  /\ fs = [p \in AbsolutePaths |-> NoFile]
  /\ call = Call(Str("*.js"), Undefined)
  /\ runs = 0
  /\ error = ""
  /\ filePaths = <<>>
  /\ task = <<>>
  /\ fileStats = <<>>
  /\ changes = <<>>
  /\ io = {}
  /\ observed = fs
  /\ baseline = fs
  /\ history = [previous |-> "idle", quiet |-> TRUE, touched |-> {},
                silent |-> FALSE, result |-> Result(Obj(<<>>), <<>>)]

InitDiff ==
  /\ previousSnapshot \in DiffSnapshots(1)
  /\ snapshot \in DiffSnapshots(1) \cup DiffSnapshots(2)
  /\ pc = "diff"
  /\ InitRest

\* const changes = getGlobDiffChanges(previousSnapshot, snapshot)
Diff ==
  /\ pc = "diff"
  /\ changes' = getGlobDiffChanges(previousSnapshot, snapshot)
  /\ pc' = "diffed"
  /\ UNCHANGED <<fs, call, runs, error, previousSnapshot, filePaths, task,
                 fileStats, snapshot, io, observed, baseline, history>>

SpecDiff == InitDiff /\ [][Diff]_vars

(***************************************************************************)
(* The validator on its own: isValidGlobDiffSnapshot applied to a value.   *)
(***************************************************************************)
\* One field of an entry: left out, or one of these values.
HashFields == {Undefined, Str("h1"), Num(7), Null}
MtimeFields == {Undefined, Num(1), Str("1"), Null}

\* The values of the entries: primitives, an array, and objects with each
\* of hash and mtimeMs left out, well typed or wrongly typed.
EntryValues ==
  {Null, Str("s"), Num(1), Arr(<<>>)}
    \cup {EntryObjectOf(h, m) : h \in HashFields, m \in MtimeFields}

EntryLists == UNION {[1..n -> EntryValues] : n \in 0..MaxEntries}

PathKey(i) == IF i = 1 THEN Join(ProcessCwd, "a.js")
              ELSE IF i = 2 THEN Join(ProcessCwd, "b.js")
              ELSE Join(ProcessCwd, ToString(i) \o ".js")

\* The values handed to the validator: primitives, and the objects and the
\* arrays with up to MaxEntries entries.
ProbeValues ==
  {Undefined, Null, Str(""), Str("abc"), Num(0), Num(1), Bool(TRUE), Bool(FALSE)}
    \cup {Obj([i \in 1..Len(q) |-> <<PathKey(i), q[i]>>]) : q \in EntryLists}
    \cup {Arr([i \in 1..Len(q) |-> <<ToString(i - 1), q[i]>>]) : q \in EntryLists}

InitValidate ==
  /\ previousSnapshot \in ProbeValues
  /\ snapshot = Obj(<<>>)
  /\ pc = "validate"
  /\ InitRest

\* isValidGlobDiffSnapshot(previousSnapshot)
Validate ==
  /\ pc = "validate"
  /\ pc' = IF isValidGlobDiffSnapshot(previousSnapshot) THEN "valid" ELSE "invalid"
  /\ UNCHANGED <<fs, call, runs, error, previousSnapshot, filePaths, task,
                 fileStats, snapshot, changes, io, observed, baseline, history>>

SpecValidate == InitValidate /\ [][Validate]_vars

(***************************************************************************)
(* Claims.                                                                 *)
(***************************************************************************)
\* The hash of the entry of a path in a snapshot.
HashOf(s, filePath) == Prop(Prop(s, filePath), "hash")
MtimeOf(s, filePath) == Prop(Prop(s, filePath), "mtimeMs")

RecordSet(list) == {list[i] : i \in 1..Len(list)}
NoRepeats(list) == \A i, j \in 1..Len(list) : list[i] = list[j] => i = j

\* What a diff of two snapshots has to hold, as sets of keys.
ExpectedChanges(previous, next) ==
  {Change("delete", k) : k \in KeySet(previous) \ KeySet(next)}
    \cup {Change("create", k) : k \in KeySet(next) \ KeySet(previous)}
    \cup {Change("update", k) :
            k \in {x \in KeySet(next) \cap KeySet(previous) :
                     HashOf(previous, x) # HashOf(next, x)}}

\* C1: getGlobDiffChanges(previous, next) holds exactly one delete per path
\* in previous only, one create per path in next only, one update per path
\* in both whose hash differs, and no other record.
C1_DifferExact ==
  pc = "diffed" =>
    /\ RecordSet(changes) = ExpectedChanges(previousSnapshot, snapshot)
    /\ NoRepeats(changes)

\* A diff with a delete, a create and an update, and an unchanged path.
C1_Witness ==
  /\ pc = "diffed"
  /\ {changes[i].type : i \in 1..Len(changes)} = {"delete", "create", "update"}

\* The shape the format asks of a snapshot: an object that is no array,
\* every entry an object with a string hash and a number mtimeMs.
IsSnapshotShaped(v) ==
  /\ v.t = "object"
  /\ \A i \in 1..Len(v.entries) :
       LET e == v.entries[i][2]
       IN /\ e.t = "object"
          /\ HasProp(e, "hash") /\ Prop(e, "hash").t = "string"
          /\ HasProp(e, "mtimeMs") /\ Prop(e, "mtimeMs").t = "number"

\* C7: the validator rejects every malformed value, arrays included, and
\* accepts only objects whose entries all are { hash: string, mtimeMs:
\* number }.
C7_RejectsMalformed ==
  pc \in {"valid", "invalid"} =>
    ((pc = "valid") <=> IsSnapshotShaped(previousSnapshot))

\* options.saveSnapshot !== false
SaveWanted == ~StrictEquals(options.saveSnapshot, Bool(FALSE))

\* The candidate files of the calls of this behaviour in a filesystem f:
\* the files of the list, or the files the patterns select, that are there.
Selected(f) ==
  IF Truthy(options.files)
  THEN {p \in RecordSet(ResolvedFiles(options.files)) : f[p].exists}
  ELSE RecordSet(Globby(OrElse(options.patterns, Arr(<<>>)), f))

\* What happened to the candidate files between two filesystems.
TrueChanges(before, after) ==
  {Change("delete", p) : p \in Selected(before) \ Selected(after)}
    \cup {Change("create", p) : p \in Selected(after) \ Selected(before)}
    \cup {Change("update", p) :
            p \in {x \in Selected(after) \cap Selected(before) :
                     before[x].content # after[x].content}}

ChangedPaths == {changes[i].filePath : i \in 1..Len(changes)}

\* C2: over calls with the same selection, no supplied snapshot and
\* saveSnapshot not false, with the filesystem changing between them so
\* that no content changes under an unchanged mtime (or with alwaysHash),
\* the changes a call returns are exactly the candidate files created,
\* changed in content or deleted since the last call that returned (since
\* nothing, for the first).
C2_ChangesSinceLastRun ==
  ( /\ pc = "returned"
    /\ SaveWanted
    /\ options.snapshot.t = "undefined"
    /\ (~history.silent \/ Truthy(options.alwaysHash)) )
  => /\ RecordSet(changes) = TrueChanges(baseline, observed)
     /\ NoRepeats(changes)

\* A second call that reports an update and a deletion.
C2_Witness ==
  /\ pc = "returned"
  /\ SaveWanted
  /\ ~history.silent
  /\ history.previous = "returned"
  /\ \E p, q \in DataPaths :
       {Change("update", p), Change("delete", q)} \subseteq RecordSet(changes)

\* C3, as stated: a call that follows a call that returned, with
\* saveSnapshot not false and no change to the files in between, returns no
\* changes, whatever the selection.
C3_IdempotentAnySelection ==
  ( /\ pc = "returned"
    /\ history.previous = "returned"
    /\ history.quiet
    /\ SaveWanted )
  => changes = <<>>

\* C3, amended: the same, for a selection that does not hold the snapshot
\* file itself.
C3_Idempotent ==
  ( /\ pc = "returned"
    /\ history.previous = "returned"
    /\ history.quiet
    /\ SaveWanted
    /\ snapshotFilePath \notin RecordSet(filePaths) )
  => changes = <<>>

\* A second call over two unchanged files that returns no changes.
C3_Witness ==
  /\ pc = "returned"
  /\ history.previous = "returned"
  /\ history.quiet
  /\ SaveWanted
  /\ RecordSet(filePaths) = DataPaths
  /\ changes = <<>>

\* The task of index i is done and met an entry of the previous snapshot
\* with exactly the mtimeMs its stat returned.
SameMtime(i) ==
  /\ task[i] = "done"
  /\ StrictEquals(MtimeOf(previousSnapshot, filePaths[i]), Num(fileStats[i]))

\* C4: without alwaysHash, a candidate whose previous entry has exactly the
\* stat-ed mtimeMs gets the previous hash, is not hashed, and yields no
\* change record, even if its content changed.
C4_ShortCircuit ==
  \A i \in 1..Len(filePaths) :
    (SameMtime(i) /\ ~Truthy(options.alwaysHash)) =>
      /\ StrictEquals(HashOf(snapshot, filePaths[i]),
                      HashOf(previousSnapshot, filePaths[i]))
      /\ <<"hashFile", filePaths[i]>> \notin io
      /\ (pc \in {"save", "returned"} => filePaths[i] \notin ChangedPaths)

\* A call that returned with the previous hash for a file whose content
\* had changed under the same mtimeMs.
C4_Witness ==
  /\ pc = "returned"
  /\ ~Truthy(options.alwaysHash)
  /\ \E i \in 1..Len(filePaths) :
       /\ SameMtime(i)
       /\ fs[filePaths[i]].exists
       /\ HashOf(snapshot, filePaths[i]) # Str(Digest(fs[filePaths[i]].content))
       /\ filePaths[i] \notin ChangedPaths

\* C5: with alwaysHash every candidate is hashed, its entry is the digest
\* of its content, and a candidate whose previous entry has the same
\* mtimeMs and another hash yields an update.
C5_AlwaysHash ==
  Truthy(options.alwaysHash) =>
    \A i \in 1..Len(filePaths) :
      task[i] = "done" =>
        /\ <<"hashFile", filePaths[i]>> \in io
        /\ HashOf(snapshot, filePaths[i]) = Str(Digest(observed[filePaths[i]].content))
        /\ ( /\ pc \in {"save", "returned"}
             /\ SameMtime(i)
             /\ HashOf(previousSnapshot, filePaths[i])
                  # Str(Digest(observed[filePaths[i]].content)) )
           => Change("update", filePaths[i]) \in RecordSet(changes)

\* A call with alwaysHash that reports an update under an unchanged mtimeMs.
C5_Witness ==
  /\ pc = "returned"
  /\ Truthy(options.alwaysHash)
  /\ \E i \in 1..Len(filePaths) :
       /\ SameMtime(i)
       /\ Change("update", filePaths[i]) \in RecordSet(changes)

\* The directory the `cwd` option names, process.cwd() by default.
BaseDir == IF Truthy(options.cwd) THEN options.cwd.s ELSE ProcessCwd

\* path.resolve(dir, p)
ResolveFrom(dir, p) == IF p \in AbsolutePaths THEN p ELSE Join(dir, p)

\* The existing files under `dir` the patterns select.
SelectedUnder(dir, f) ==
  {p \in {Join(dir, n) : n \in BaseNames} \cap AbsolutePaths :
     /\ f[p].exists
     /\ \E n \in BaseNames :
          p = Join(dir, n) /\ Selects(PatternList(options.patterns), n)}

\* C8: the keys of the returned snapshot and the paths of the change
\* records are the files of the list resolved against the cwd option, or
\* the files the patterns select under it.
C8_CwdIsBase ==
  pc = "returned" =>
    /\ KeySet(snapshot) =
         IF Truthy(options.files)
         THEN {ResolveFrom(BaseDir, options.files.entries[i][2].s) :
                 i \in 1..Len(options.files.entries)}
         ELSE SelectedUnder(BaseDir, observed)
    /\ ChangedPaths \subseteq
         {ResolveFrom(BaseDir, n) : n \in BaseNames} \cup AbsolutePaths

\* Same keys, and per key the same hash and mtimeMs.
DeepEqual(a, b) ==
  /\ a.t = b.t
  /\ KeySet(a) = KeySet(b)
  /\ \A k \in KeySet(a) :
       /\ StrictEquals(HashOf(a, k), HashOf(b, k))
       /\ StrictEquals(MtimeOf(a, k), MtimeOf(b, k))

\* C10: when a call with saveSnapshot not false has returned, the snapshot
\* file holds the returned snapshot, and loading it passes validation and
\* gives a value deep-equal to the returned snapshot.
C10_RoundTrip ==
  (pc = "returned" /\ SaveWanted) =>
    LET file == fs[snapshotFilePath]
    IN /\ file.exists
       /\ <<"writeFile", snapshotFilePath>> \in io
       /\ loadGlobDiffSnapshot(file).ok
       /\ DeepEqual(loadGlobDiffSnapshot(file).value, snapshot)

\* A call that saved a snapshot of two files.
C10_Witness ==
  /\ pc = "returned"
  /\ SaveWanted
  /\ KeySet(snapshot) = DataPaths
  /\ DeepEqual(loadGlobDiffSnapshot(fs[snapshotFilePath]).value, snapshot)

NothingSelected == ~Truthy(options.patterns) /\ ~Truthy(options.files)

\* C6: a call with neither patterns nor files fails with the configuration
\* error, and performs no I/O at all: no read of the snapshot file, no stat,
\* no hash, no write, whatever the snapshot file and the other options.
C6_ConfigErrorBeforeIO ==
  NothingSelected =>
    /\ io = {}
    /\ pc \in {"idle", "load", "threw"}
    /\ (pc = "threw" => error = "Either patterns or files must be provided")

\* C9: once the stat or the hash of a candidate file has failed, the call
\* has ended with that error and returns nothing, it writes no snapshot
\* file, and the snapshot file is as it was before the call.
C9_FailFast ==
  (\E i \in 1..Len(task) : task[i] = "failed") =>
    /\ pc = "threw"
    /\ error = "ENOENT"
    /\ <<"writeFile", snapshotFilePath>> \notin io
    /\ fs[snapshotFilePath] = observed[snapshotFilePath]

\* A call that failed in the hash of one file after another file's task
\* was done.
C9_Witness ==
  /\ pc = "threw"
  /\ \E i, j \in 1..Len(task) :
       /\ task[i] = "failed"
       /\ <<"hashFile", filePaths[i]>> \in io
       /\ task[j] = "done"

\* C11: with saveSnapshot false a call never writes, whether it returns or
\* throws: the snapshot file is as it was when the call was made, and a call
\* that follows a returned call with no change to the files in between
\* returns the same snapshot and the same set of changes.
C11_NoSaveNoWrite ==
  ~SaveWanted =>
    /\ \A e \in io : e[1] # "writeFile"
    /\ fs[snapshotFilePath] = observed[snapshotFilePath]
    /\ (pc = "returned" /\ history.previous = "returned" /\ history.quiet) =>
         /\ DeepEqual(snapshot, history.result.snapshot)
         /\ RecordSet(changes) = RecordSet(history.result.changes)

\* A second call without saving, over a stored snapshot file, that returns
\* the changes the first one did.
C11_Witness ==
  /\ ~SaveWanted
  /\ pc = "returned"
  /\ history.previous = "returned"
  /\ history.quiet
  /\ fs[snapshotFilePath].exists
  /\ changes # <<>>
  /\ RecordSet(changes) = RecordSet(history.result.changes)

\* The entry a build makes for a file from a previous snapshot and the file
\* as the stat and the hash find it.
EntryFor(previous, filePath, file) ==
  FileSnapshot(
    IF ReusePrevious(Prop(previous, filePath), file.mtimeMs)
    THEN HashOf(previous, filePath)
    ELSE Str(Digest(file.content)),
    Num(file.mtimeMs))

C13_InvalidSuppliedFailsFast ==
  ( /\ runs >= 1
    /\ options.snapshot.t # "undefined"
    /\ ~IsSnapshotShaped(options.snapshot) )
  => /\ pc = "threw"
     /\ error = "Invalid glob-diff snapshot"
     /\ io = {}

\* C14: a call with no snapshot option, made when there is no snapshot
\* file, goes on without an error from the empty previous snapshot, and its
\* changes are one create per candidate file and nothing else.
C14_EmptyBaseCase ==
  ( /\ runs >= 1
    /\ options.snapshot.t = "undefined"
    /\ ~observed[snapshotFilePath].exists
    /\ pc # "load" )
  => /\ previousSnapshot = Obj(<<>>)
     /\ error \notin {"Invalid glob-diff snapshot", "Invalid glob-diff snapshot file",
                      "SyntaxError"}
     /\ pc \in {"save", "returned"} =>
          /\ RecordSet(changes) =
               {Change("create", filePaths[i]) : i \in 1..Len(filePaths)}
          /\ Len(changes) = Len(filePaths)

\* A first call over two files that returned two creates.
C14_Witness ==
  /\ pc = "returned"
  /\ options.snapshot.t = "undefined"
  /\ ~observed[snapshotFilePath].exists
  /\ RecordSet(changes) = {Change("create", p) : p \in DataPaths}
  /\ Len(changes) = 2

\* A snapshot file that is there and holds no snapshot: empty, not JSON, or
\* JSON of a value that is not of the snapshot shape.
Malformed(file) ==
  /\ file.exists
  /\ \/ file.content = <<>>
     \/ ~JSONparse(file.content).ok
     \/ ~IsSnapshotShaped(JSONparse(file.content).value)

\* C15: a call with no snapshot option, made over a snapshot file that is
\* there and malformed, fails with an error of the load before the build:
\* no glob, no stat, no hash, no write.
C15_MalformedFileFails ==
  ( /\ runs >= 1
    /\ options.snapshot.t = "undefined"
    /\ Malformed(observed[snapshotFilePath])
    /\ pc # "load" )
  => /\ pc = "threw"
     /\ error \in {"Invalid glob-diff snapshot file", "SyntaxError"}
     /\ io = {<<"readFile", snapshotFilePath>>}

\* C16: the snapshot a build hands back has exactly the candidate paths as
\* keys, one entry each, so none of a path of the previous snapshot that is
\* no candidate, and every entry holds the mtimeMs the stat of this build
\* returned.
C16_BuilderGuarantee ==
  ( /\ pc \in {"save", "returned"}
    /\ NoRepeats(filePaths) )
  => /\ KeySet(snapshot) = RecordSet(filePaths)
     /\ Len(ObjectEntries(snapshot)) = Len(filePaths)
     /\ \A k \in KeySet(previousSnapshot) \ RecordSet(filePaths) :
          ~HasProp(snapshot, k)
     /\ \A i \in 1..Len(filePaths) :
          /\ MtimeOf(snapshot, filePaths[i]) = Num(fileStats[i])
          /\ fileStats[i] = observed[filePaths[i]].mtimeMs

\* A build over one file, rewritten since the previous snapshot, with the
\* previous snapshot holding another file as well.
C16_Witness ==
  /\ pc = "returned"
  /\ Len(filePaths) = 1
  /\ KeySet(previousSnapshot) = DataPaths
  /\ KeySet(snapshot) = RecordSet(filePaths)
  /\ MtimeOf(snapshot, filePaths[1]) # MtimeOf(previousSnapshot, filePaths[1])

\* The task of index i is done for a file that the previous snapshot holds
\* under another mtimeMs and with the hash of the content the file has now.
Touched(i) ==
  /\ task[i] = "done"
  /\ HasProp(previousSnapshot, filePaths[i])
  /\ ~StrictEquals(MtimeOf(previousSnapshot, filePaths[i]), Num(fileStats[i]))
  /\ HashOf(previousSnapshot, filePaths[i])
       = Str(Digest(observed[filePaths[i]].content))

\* C17: a candidate of the previous snapshot whose mtimeMs changed and whose
\* content did not is hashed afresh, gets the hash it had with the new
\* mtimeMs, and yields no change record.
C17_TouchedNoChange ==
  \A i \in 1..Len(filePaths) :
    Touched(i) =>
      /\ <<"hashFile", filePaths[i]>> \in io
      /\ Prop(snapshot, filePaths[i]) =
           FileSnapshot(HashOf(previousSnapshot, filePaths[i]), Num(fileStats[i]))
      /\ fileStats[i] = observed[filePaths[i]].mtimeMs
      /\ (pc \in {"save", "returned"} => filePaths[i] \notin ChangedPaths)

\* A call that returned after one file was touched and the other rewritten
\* with another content: one update, none for the touched file.
C17_Witness ==
  /\ pc = "returned"
  /\ \E i, j \in 1..Len(filePaths) :
       /\ Touched(i)
       /\ MtimeOf(snapshot, filePaths[i]) = Num(2)
       /\ changes = <<Change("update", filePaths[j])>>

\* The position of a key in the key order of a snapshot.
KeyIndex(s, k) == CHOOSE i \in 1..Len(ObjectKeys(s)) : ObjectKeys(s)[i] = k

\* C18: in the list getGlobDiffChanges returns no delete comes after a
\* create or an update, the deletes are in the key order of the previous
\* snapshot, and the creates and updates in the key order of the next one.
C18_ChangeOrder ==
  pc = "diffed" =>
    \A i, j \in 1..Len(changes) :
      i < j =>
        /\ changes[j].type = "delete" => changes[i].type = "delete"
        /\ (changes[i].type = "delete" /\ changes[j].type = "delete") =>
             KeyIndex(previousSnapshot, changes[i].filePath)
               < KeyIndex(previousSnapshot, changes[j].filePath)
        /\ (changes[i].type # "delete" /\ changes[j].type # "delete") =>
             KeyIndex(snapshot, changes[i].filePath)
               < KeyIndex(snapshot, changes[j].filePath)

\* A diff of two deletes and a create, the deleted paths in an order of
\* the previous snapshot that is not the alphabetical one.
C18_Witness ==
  /\ pc = "diffed"
  /\ changes = <<Change("delete", Join(ProcessCwd, "b.js")),
                 Change("delete", Join(ProcessCwd, "a.js")),
                 Change("create", Join(ProcessCwd, "c.js"))>>

\* The paths of the records of one type.
PathsOf(type) == {changes[i].filePath : i \in {j \in 1..Len(changes) : changes[j].type = type}}

\* C20: the list getGlobDiffChanges returns has at most one record per
\* path, taking the deleted paths from the keys of the previous snapshot and
\* adding the created ones gives the keys of the next, and the list is
\* empty exactly when the two snapshots have the same keys with the same
\* hashes.
C20_ChangesReconstruct ==
  pc = "diffed" =>
    /\ \A i, j \in 1..Len(changes) :
         changes[i].filePath = changes[j].filePath => i = j
    /\ (KeySet(previousSnapshot) \ PathsOf("delete")) \cup PathsOf("create")
         = KeySet(snapshot)
    /\ (changes = <<>>) <=>
         /\ KeySet(previousSnapshot) = KeySet(snapshot)
         /\ \A k \in KeySet(snapshot) :
              HashOf(previousSnapshot, k) = HashOf(snapshot, k)

\* A diff of snapshots with the same keys and hashes, in different key
\* orders and with different mtimeMs, that is empty.
C20_Witness ==
  /\ pc = "diffed"
  /\ changes = <<>>
  /\ Len(ObjectKeys(snapshot)) = 3
  /\ ObjectKeys(previousSnapshot) # ObjectKeys(snapshot)
  /\ previousSnapshot # snapshot
  /\ \E k \in KeySet(snapshot) : MtimeOf(previousSnapshot, k) # MtimeOf(snapshot, k)

\* The indices of the tasks that are done.
DoneTasks == {i \in 1..Len(task) : task[i] = "done"}

\* The new snapshot holds the entries of the tasks that are done and no
\* other, each the entry that follows from the previous snapshot and the
\* file as it was when the call was made.
BuildDetermined ==
  NoRepeats(filePaths) =>
    /\ KeySet(snapshot) = {filePaths[i] : i \in DoneTasks}
    /\ Len(ObjectEntries(snapshot)) = Cardinality(DoneTasks)
    /\ \A i \in DoneTasks :
         Prop(snapshot, filePaths[i]) =
           EntryFor(previousSnapshot, filePaths[i], observed[filePaths[i]])

\* A step of a call that changes the new snapshot is the step of one task
\* that gets done and adds the entry of its own path, a key not yet there.
WriteOnce ==
  (runs' = runs /\ snapshot' # snapshot) =>
    \E i \in 1..Len(filePaths) :
      /\ task[i] # "done"
      /\ task' = [task EXCEPT ![i] = "done"]
      /\ ~HasProp(snapshot, filePaths[i])
      /\ ObjectEntries(snapshot') =
           Append(ObjectEntries(snapshot),
                  <<filePaths[i], Prop(snapshot', filePaths[i])>>)

\* While tasks are under way the previous snapshot stays what it is (the
\* supplied object, if one was supplied).
PreviousReadOnly ==
  (\E i \in 1..Len(task) : task[i] \in {"stat", "hash"}) =>
    /\ previousSnapshot' = previousSnapshot
    /\ Truthy(options.snapshot) => previousSnapshot' = options.snapshot

\* C19: with the files unchanged while a call runs, whatever the order in
\* which the tasks take their steps the new snapshot ends up with the same
\* entries; every key is written once, by the task of its own path; and the
\* previous snapshot is not written during the build.
C19_InterleavingIndependent ==
  /\ []BuildDetermined
  /\ [][WriteOnce]_vars
  /\ [][PreviousReadOnly]_vars

\* A call given a snapshot that returned a snapshot of two files whose
\* second task was done first.
C19_Witness ==
  /\ pc = "returned"
  /\ options.snapshot = StaleSnapshot
  /\ Len(filePaths) = 2
  /\ ObjectKeys(snapshot) = <<filePaths[2], filePaths[1]>>

====
